---- MODULE Spec2Model ----
(***************************************************************************)
(* A model of pod_memory_metrics.py: the interactive time-range prompt,    *)
(* get_pod_metrics (validation, 24h chunk planning, the per-chunk and      *)
(* per-metric query loop with its merge of series) and the part of main    *)
(* that reduces the merged series to one row per pod, filters and sorts.   *)
(*                                                                         *)
(* Conventions.  A Python str is a sequence of one-character strings, so   *)
(* that regular expressions, split, strip, lower and string comparison can *)
(* be computed.  A datetime is a number of milliseconds, a timedelta a     *)
(* number of milliseconds.  None is the value None.  A Python float that   *)
(* holds a quotient is kept exact: every sample value the backend returns  *)
(* in this model is a multiple of the divisor the code divides by.         *)
(***************************************************************************)
EXTENDS Integers, Sequences, FiniteSets, TLC

VARIABLES
    pc,           \* position of the program
    clock,        \* the wall clock, as datetime.now() would read it
    message,      \* the last diagnostic printed ("" when none)
    start_time,   \* main: start_time, as get_datetime_range returned it
    end_time,     \* main: end_time
    threshold,    \* main: minimum memory in MB
    sort_option,  \* main: the chosen sort mode
    call,         \* get_pod_metrics: its locals now, start_time, end_time
    time_chunks,  \* get_pod_metrics: the planned (chunk_start, chunk_end) list
    chunk_idx,    \* get_pod_metrics: index of the chunk being queried
    metric_idx,   \* get_pod_metrics: index of the metric being queried
    issued,       \* the queries sent to the backend, in order
    warnings,     \* the number of "Warning: Failed to fetch" lines printed
    all_results,  \* get_pod_metrics: the dict metric_name -> merged series
    ref_results,  \* the same run with every failed query answered by no series
    pod_data,     \* main: the rows, sorted once pc = "done"
    range_line,   \* get_datetime_range: its time_range, the line last read
    answers       \* what each query of issued returned (no series if it raised)

vars == <<pc, clock, message, start_time, end_time, threshold, sort_option,
          call, time_chunks, chunk_idx, metric_idx, issued, warnings,
          all_results, ref_results, pod_data, range_line, answers>>

\* An optional value: None, or Some(x) holding x
None == <<>>
Some(x) == <<x>>
Val(o) == o[1]

-----------------------------------------------------------------------------
(* Characters and strings *)

\* The characters used, in ASCII order.
Ascii ==
    <<" ", "-", "0", "1", "2", "3", "4", "5", "6", "7", "8", "9", ":",
      "A", "B", "C", "D", "E", "F", "G", "H", "I", "J", "K", "L", "M",
      "N", "O", "P", "Q", "R", "S", "T", "U", "V", "W", "X", "Y", "Z", "_",
      "a", "b", "c", "d", "e", "f", "g", "h", "i", "j", "k", "l", "m",
      "n", "o", "p", "q", "r", "s", "t", "u", "v", "w", "x", "y", "z">>

OrdTable ==
    [c \in {Ascii[i] : i \in 1..Len(Ascii)} |->
        CHOOSE i \in 1..Len(Ascii) : Ascii[i] = c]
Ord(c) == OrdTable[c]

Digits == {"0", "1", "2", "3", "4", "5", "6", "7", "8", "9"}
HexDigits == Digits \cup {"a", "b", "c", "d", "e", "f"}
LowerLetters == {Ascii[i] : i \in OrdTable["a"]..OrdTable["z"]}
UpperLetters == {Ascii[i] : i \in OrdTable["A"]..OrdTable["Z"]}
LowerAlnum == Digits \cup LowerLetters

\* str.lower() on one character and on a string
LowerChar(c) == IF c \in UpperLetters THEN Ascii[Ord(c) + (Ord("a") - Ord("A"))] ELSE c
Lower(s) == [i \in 1..Len(s) |-> LowerChar(s[i])]

\* str.strip(): leading and trailing blanks removed
Strip(s) ==
    LET inked == {i \in 1..Len(s) : s[i] # " "}
        lo == CHOOSE i \in inked : \A j \in inked : i <= j
        hi == CHOOSE i \in inked : \A j \in inked : j <= i
    IN IF inked = {} THEN <<>> ELSE SubSeq(s, lo, hi)

\* Python's < on str: by code point, a proper prefix first
StrLess(s, t) ==
    LET differ == {i \in 1..Len(s) : i <= Len(t) /\ s[i] # t[i]}
        first == CHOOSE i \in differ : \A j \in differ : i <= j
    IN  IF differ = {} THEN Len(s) < Len(t) ELSE Ord(s[first]) < Ord(t[first])

\* int() of a string of decimal digits
RECURSIVE IntOfDigits(_)
IntOfDigits(ds) ==
    IF ds = <<>> THEN 0
    ELSE 10 * IntOfDigits(SubSeq(ds, 1, Len(ds) - 1)) + (Ord(ds[Len(ds)]) - Ord("0"))

-----------------------------------------------------------------------------
(* Time *)

MsPerSecond == 1000
Seconds(n) == n * MsPerSecond
Minutes(n) == n * 60 * MsPerSecond
Hours(n) == n * 60 * 60 * MsPerSecond
Days(n) == n * 24 * 60 * 60 * MsPerSecond

\* get_pod_metrics and get_datetime_range: max_history = timedelta(days=7)
MaxHistoryDays == 7
max_history == Days(MaxHistoryDays)
\* get_pod_metrics: timedelta(hours=24), the chunk length
ChunkHours == 24
\* get_pod_metrics: a chunk ending less than 300 s before now gets 300 s more
BufferSeconds == 300
\* get_datetime_range: delta.total_seconds() < 60
MinRangeSeconds == 60

\* int(dt.timestamp()): whole seconds, the fraction dropped
Timestamp(dt) == dt \div MsPerSecond

Min(a, b) == IF a <= b THEN a ELSE b

\* parse_relative_time: None, or the timedelta the string names
parse_relative_time(time_str) ==
    LET s == Lower(time_str)
        n == Len(s)
    IN  IF time_str = <<>> THEN None
        ELSE IF s = <<"n", "o", "w">> THEN Some(0)
        ELSE IF /\ n >= 2
                /\ \A i \in 1..(n - 1) : s[i] \in Digits
                /\ s[n] \in {"h", "d", "m"}
             THEN LET amount == IntOfDigits(SubSeq(s, 1, n - 1))
                  IN  CASE s[n] = "h" -> Some(Hours(amount))
                        [] s[n] = "d" -> Some(Days(amount))
                        [] s[n] = "m" -> Some(Minutes(amount))
             ELSE None

\* Python truth of "not delta": None and timedelta(0) are both falsy
Falsy(delta) == delta = None \/ Val(delta) = 0

\* One pass of the loop of get_datetime_range on one line of input: the
\* diagnostic it prints and continues with, or "" when it returns a range.
RangeVerdict(line) ==
    LET stripped == Strip(line)
        time_range == IF stripped = <<>> THEN <<"1", "h">> ELSE stripped
        delta == parse_relative_time(time_range)
    IN  IF Falsy(delta) THEN "Invalid time format"
        ELSE IF Val(delta) >= max_history + Minutes(1) THEN "Time range too large"
        ELSE IF Val(delta) < Seconds(MinRangeSeconds) THEN "Time range too small"
        ELSE ""

RangeDelta(line) ==
    LET stripped == Strip(line)
    IN  parse_relative_time(IF stripped = <<>> THEN <<"1", "h">> ELSE stripped)

\* The line read by input().strip(), an empty one replaced by the default
TimeRangeOf(line) ==
    IF Strip(line) = <<>> THEN <<"1", "h">> ELSE Strip(line)

\* The while loop of get_pod_metrics that splits [start, end) into chunks
RECURSIVE PlanChunks(_, _)
PlanChunks(current_start, end) ==
    IF current_start < end
    THEN LET chunk_end == Min(current_start + Hours(ChunkHours), end)
         IN  <<<<current_start, chunk_end>>>> \o PlanChunks(chunk_end, end)
    ELSE <<>>

-----------------------------------------------------------------------------
(* The backend's answer and its merge into all_results *)

\* The 8 logical metrics, in the order the dict of get_pod_metrics lists them
MetricNames ==
    <<"memory_max", "memory_avg", "memory_limit", "memory_request",
      "cpu_max", "cpu_avg", "cpu_limit", "cpu_request">>
MetricSet == {MetricNames[i] : i \in 1..Len(MetricNames)}

\* A point is <<timestamp in ms, value>>, the value None or Some(number)
PointTime(p) == p[1]
PointValue(p) == p[2]

SetMax(S) == CHOOSE x \in S : \A y \in S : y <= x
SetMin(S) == CHOOSE x \in S : \A y \in S : x <= y

RemoveAt(seq, i) == SubSeq(seq, 1, i - 1) \o SubSeq(seq, i + 1, Len(seq))

\* sorted(tag_set): the tags in ascending string order
RECURSIVE SortedStrs(_)
SortedStrs(ss) ==
    IF ss = <<>> THEN <<>>
    ELSE LET i == CHOOSE k \in 1..Len(ss) :
                      \A j \in 1..Len(ss) : ~StrLess(ss[j], ss[k])
         IN  <<ss[i]>> \o SortedStrs(RemoveAt(ss, i))

\* get_pod_metrics: key = (scope, tuple(sorted(tag_set)))
MergeKey(s) == <<s.scope, SortedStrs(s.tag_set)>>

\* existing_lookup[key]: the dict comprehension keeps the last series of a key;
\* 0 stands for "key not in existing_lookup"
LookupIndex(existing_series, key) ==
    LET idxs == {i \in 1..Len(existing_series) : MergeKey(existing_series[i]) = key}
    IN  IF idxs = {} THEN 0 ELSE SetMax(idxs)

\* a set of numbers as an ascending sequence
RECURSIVE Ascending(_)
Ascending(S) ==
    IF S = {} THEN <<>> ELSE <<SetMin(S)>> \o Ascending(S \ {SetMin(S)})

\* A merge that keeps the concatenated points as they are
AllPoints(all_points) == all_points

\* A dict that keeps, per timestamp, the point written first
FirstPoints(all_points) ==
    LET stamps == {PointTime(all_points[i]) : i \in 1..Len(all_points)}
        first(t) == all_points[SetMin({i \in 1..Len(all_points) :
                                           PointTime(all_points[i]) = t})]
        order == Ascending(stamps)
    IN  [k \in 1..Len(order) |-> first(order[k])]

\* list({p[0]: p for p in all_points}.values()) sorted by p[0]: per timestamp
\* the dict keeps the point written last
UniquePoints(all_points) ==
    LET stamps == {PointTime(all_points[i]) : i \in 1..Len(all_points)}
        last(t) == all_points[SetMax({i \in 1..Len(all_points) :
                                          PointTime(all_points[i]) = t})]
        order == Ascending(stamps)
    IN  [k \in 1..Len(order) |-> last(order[k])]

\* A loop that appends every new series and merges none
AppendNewSeries(lookup_source, existing_series, new_series) ==
    existing_series \o new_series

\* the loop "for new_s in new_series": existing_lookup was built from the
\* series present before the loop; appended series are not added to it
RECURSIVE MergeNewSeries(_, _, _)
MergeNewSeries(lookup_source, existing_series, new_series) ==
    IF new_series = <<>> THEN existing_series
    ELSE LET new_s == Head(new_series)
             idx == LookupIndex(lookup_source, MergeKey(new_s))
         IN  IF idx # 0
             THEN MergeNewSeries(
                      lookup_source,
                      [existing_series EXCEPT ![idx].pointlist =
                           UniquePoints(@ \o new_s.pointlist)],
                      Tail(new_series))
             ELSE MergeNewSeries(lookup_source, Append(existing_series, new_s),
                                 Tail(new_series))

\* "Merge results": the body of the try block after a query that returned
MergeResult(results, metric_name, series) ==
    IF metric_name \notin DOMAIN results
    THEN [m \in DOMAIN results \cup {metric_name} |->
              IF m = metric_name THEN series ELSE results[m]]
    ELSE [results EXCEPT ![metric_name] = MergeNewSeries(@, @, series)]

\* The bounds of the query of one chunk: from_ts, and to_ts with the buffer
\* added when the chunk ends less than 300 s before now
FromTs(chunk) == Timestamp(chunk[1])

\* to_ts with the buffer added to every chunk, whenever it ends
ToTsAlwaysBuffered(chunk, now) == Timestamp(chunk[2]) + BufferSeconds

ToTs(chunk, now) ==
    IF now - chunk[2] < Seconds(BufferSeconds)
    THEN Timestamp(chunk[2]) + BufferSeconds
    ELSE Timestamp(chunk[2])

-----------------------------------------------------------------------------
(* get_base_pod_name *)

AllIn(s, i, j, class) == \A k \in i..j : s[k] \in class

\* Whether pattern number k of get_base_pod_name matches s from position i to
\* the end of s ("$")
SuffixMatches(k, s, i) ==
    LET n == Len(s)
    IN  /\ i \in 1..n
        /\ s[i] = "-"
        /\ CASE k = 1 ->    \* -[0-9a-f]{8,10}-[0-9a-z]{5,7}$
                   \E j \in (i + 1)..n :
                       /\ s[j] = "-"
                       /\ (j - i - 1) \in 8..10
                       /\ AllIn(s, i + 1, j - 1, HexDigits)
                       /\ (n - j) \in 5..7
                       /\ AllIn(s, j + 1, n, LowerAlnum)
             [] k = 2 ->    \* -[0-9a-f]{8,16}$
                   (n - i) \in 8..16 /\ AllIn(s, i + 1, n, HexDigits)
             [] k = 3 ->    \* -[0-9]+$
                   (n - i) >= 1 /\ AllIn(s, i + 1, n, Digits)
             [] k = 4 ->    \* -[a-z0-9]{5,10}$
                   (n - i) \in 5..10 /\ AllIn(s, i + 1, n, LowerAlnum)

\* re.search(pattern k, s): the start of the leftmost match, 0 for no match
SearchStart(k, s) ==
    LET starts == {i \in 1..Len(s) : SuffixMatches(k, s, i)}
    IN  IF starts = {} THEN 0 ELSE SetMin(starts)

PatternCount == 4

\* the loop over the patterns: the first one that matches cuts the name
RECURSIVE StripFrom(_, _)
StripFrom(k, base_name) ==
    IF k > PatternCount THEN base_name
    ELSE IF SearchStart(k, base_name) # 0
         THEN SubSeq(base_name, 1, SearchStart(k, base_name) - 1)
         ELSE StripFrom(k + 1, base_name)

\* A loop that goes on after a match and cuts a second suffix
StripRepeatedly(pod_name) == StripFrom(1, StripFrom(1, pod_name))

get_base_pod_name(pod_name) == StripFrom(1, pod_name)

-----------------------------------------------------------------------------
(* main: from the merged series to the sorted rows *)

\* results.get(metric, {}).get('series', [])
SeriesOf(results, metric) ==
    IF metric \in DOMAIN results THEN results[metric] ELSE <<>>

\* main: the key (scope, tuple(tag_set)) of the per-metric dicts
RowKey(s) == <<s.scope, s.tag_set>>

\* xxx_data[key]: the dict comprehension keeps the pointlist of the last
\* series of a key; None when the key is not in the dict
DataAt(series, key) ==
    LET idxs == {i \in 1..Len(series) : RowKey(series[i]) = key}
    IN  IF idxs = {} THEN None ELSE Some(series[SetMax(idxs)].pointlist)

\* the keys of memory_max_data, in the dict's (first insertion) order
RECURSIVE KeysOf(_)
KeysOf(series) ==
    IF series = <<>> THEN <<>>
    ELSE LET rest == KeysOf(SubSeq(series, 1, Len(series) - 1))
             key == RowKey(series[Len(series)])
         IN  IF \E i \in 1..Len(rest) : rest[i] = key THEN rest
             ELSE Append(rest, key)

\* "for point in reversed(points): if point[1] is not None: ... break":
\* the last point of the list whose value is not None, or None
LatestPoint(points) ==
    LET idxs == {i \in 1..Len(points) : PointValue(points[i]) # None}
    IN  IF idxs = {} THEN None ELSE Some(points[SetMax(idxs)])

\* the same scan over xxx_data[key] when the key is in the dict
LatestIn(results, metric, key) ==
    LET data == DataAt(SeriesOf(results, metric), key)
    IN  IF data = None THEN None ELSE LatestPoint(Val(data))

\* the divisors of the unit conversions: 1024 * 1024 and 1e9
BytesPerMB == 1048576
NanosPerCore == 1000000000

\* the value a scan leaves in its variable: None, or the point's value / divisor
Scaled(latest, divisor) ==
    IF latest = None THEN None ELSE Some(Val(PointValue(Val(latest))) \div divisor)

\* latest_cpu_timestamp: datetime.fromtimestamp(point[0] / 1000.0), in ms
LatestCpuTimestamp(results, key) ==
    LET latest == LatestIn(results, "cpu_max", key)
    IN  IF latest = None THEN None ELSE Some(PointTime(Val(latest)))

\* the tag keys main reads: kube_cluster_name, kube_namespace, pod_name
KubeClusterName == <<"k", "u", "b", "e", "_", "c", "l", "u", "s", "t", "e", "r",
                     "_", "n", "a", "m", "e">>
KubeNamespace == <<"k", "u", "b", "e", "_", "n", "a", "m", "e", "s", "p", "a",
                   "c", "e">>
PodName == <<"p", "o", "d", "_", "n", "a", "m", "e">>
Tag(key, value) == key \o <<":">> \o value

\* tags.get(key, 'unknown') over {tag.split(':', 1)[0]: tag.split(':', 1)[1]
\* for tag in tag_set if ':' in tag}
Unknown == <<"u", "n", "k", "n", "o", "w", "n">>
ColonAt(tag) ==
    LET at == {i \in 1..Len(tag) : tag[i] = ":"}
    IN  IF at = {} THEN 0 ELSE SetMin(at)
TagValue(tag_set, key) ==
    LET idxs == {i \in 1..Len(tag_set) :
                    /\ ColonAt(tag_set[i]) # 0
                    /\ SubSeq(tag_set[i], 1, ColonAt(tag_set[i]) - 1) = key}
        tag == tag_set[SetMax(idxs)]
    IN  IF idxs = {} THEN Unknown ELSE SubSeq(tag, ColonAt(tag) + 1, Len(tag))

\* "x or 0" on an optional number: never None
OrZero(x) == IF x = None THEN Some(0) ELSE x

\* (max / limit) * 100 as the fraction <<numerator, denominator>>, when max and
\* limit are not None and limit > 0; else None
Percent(max, limit) ==
    IF max # None /\ limit # None /\ Val(limit) > 0
    THEN Some(<<Val(max) * 100, Val(limit)>>)
    ELSE None

\* "percent or 0": a percentage of None or of 0.0 becomes 0 (the fraction 0/1)
PercentOrZero(percent) ==
    IF percent = None \/ Val(percent)[1] = 0 THEN Some(<<0, 1>>) ELSE percent

\* The values the loop body of main computes for one key of memory_max_data
Reduced(results, key) ==
    LET memory_max == Scaled(LatestIn(results, "memory_max", key), BytesPerMB)
        memory_avg == Scaled(LatestIn(results, "memory_avg", key), BytesPerMB)
        memory_request == Scaled(LatestIn(results, "memory_request", key), BytesPerMB)
        memory_limit == Scaled(LatestIn(results, "memory_limit", key), BytesPerMB)
        cpu_max == Scaled(LatestIn(results, "cpu_max", key), NanosPerCore)
        cpu_avg == Scaled(LatestIn(results, "cpu_avg", key), NanosPerCore)
        cpu_request == Scaled(LatestIn(results, "cpu_request", key), 1)
        cpu_limit == Scaled(LatestIn(results, "cpu_limit", key), 1)
    IN  [memory_max |-> memory_max, memory_avg |-> memory_avg,
         memory_request |-> memory_request, memory_limit |-> memory_limit,
         memory_percent |-> Percent(memory_max, memory_limit),
         latest_cpu_timestamp |-> LatestCpuTimestamp(results, key),
         cpu_max |-> cpu_max, cpu_avg |-> cpu_avg,
         cpu_request |-> cpu_request, cpu_limit |-> cpu_limit,
         cpu_percent |-> Percent(cpu_max, cpu_limit)]

\* The dict appended to pod_data for one key.  A numeric field holds an
\* optional number, as the variable it is copied from does.
Row(results, key) ==
    LET v == Reduced(results, key)
        tag_set == key[2]
    IN  [cluster |-> TagValue(tag_set, KubeClusterName),
         namespace |-> TagValue(tag_set, KubeNamespace),
         pod |-> TagValue(tag_set, PodName),
         memory_max |-> v.memory_max,
         memory_avg |-> OrZero(v.memory_avg),
         memory_request |-> OrZero(v.memory_request),
         memory_limit |-> OrZero(v.memory_limit),
         memory_percent |-> PercentOrZero(v.memory_percent),
         cpu_max |-> OrZero(v.cpu_max),
         cpu_avg |-> OrZero(v.cpu_avg),
         cpu_request |-> OrZero(v.cpu_request),
         cpu_limit |-> OrZero(v.cpu_limit),
         cpu_percent |-> PercentOrZero(v.cpu_percent),
         base_name |-> get_base_pod_name(TagValue(tag_set, PodName))]

\* A filter that forgets the threshold
KeptWhateverThreshold(results, key, min_mb) ==
    /\ Val(DataAt(SeriesOf(results, "memory_max"), key)) # <<>>
    /\ Reduced(results, key).memory_max # None

\* Whether the loop body appends a row for the key: its pointlist is not
\* empty, and memory_max is neither None nor below the threshold
Kept(results, key, min_mb) ==
    /\ Val(DataAt(SeriesOf(results, "memory_max"), key)) # <<>>
    /\ Reduced(results, key).memory_max # None
    /\ ~(Val(Reduced(results, key).memory_max) < min_mb)

\* "for (scope, tag_set), points in memory_max_data.items()": pod_data before
\* the sort
RECURSIVE RowsFor(_, _, _)
RowsFor(results, keys, min_mb) ==
    IF keys = <<>> THEN <<>>
    ELSE (IF Kept(results, Head(keys), min_mb)
          THEN <<Row(results, Head(keys))>> ELSE <<>>)
         \o RowsFor(results, Tail(keys), min_mb)

BuildRows(results, min_mb) ==
    RowsFor(results, KeysOf(SeriesOf(results, "memory_max")), min_mb)

\* get_sort_option: the menu
SortOptions ==
    {"Memory (high to low)", "Memory (low to high)", "CPU (high to low)",
     "CPU (low to high)", "Name", "Namespace"}

\* the if/elif chain that picks sort_key and reverse
SortReverse(option) ==
    ~(option = "Memory (low to high)" \/ option = "CPU (low to high)")

\* sort_key(a) < sort_key(b) for the sort_key the chain picks
SortKeyLess(option, a, b) ==
    CASE option = "Memory (low to high)" -> Val(a.memory_max) < Val(b.memory_max)
      [] option = "CPU (high to low)" -> Val(a.cpu_max) < Val(b.cpu_max)
      [] option = "CPU (low to high)" -> Val(a.cpu_max) < Val(b.cpu_max)
      [] option = "Name" -> StrLess(a.base_name, b.base_name)
      [] OTHER ->   \* the else branch: (namespace, memory_max)
            \/ StrLess(a.namespace, b.namespace)
            \/ /\ a.namespace = b.namespace
               /\ Val(a.memory_max) < Val(b.memory_max)

\* whether row a must come before row b in the sorted list
Before(option, a, b) ==
    IF SortReverse(option) THEN SortKeyLess(option, b, a)
    ELSE SortKeyLess(option, a, b)

\* list.sort(key=sort_key, reverse=reverse): a stable sort, rows with equal
\* keys keep their order
RECURSIVE InsertRow(_, _, _)
InsertRow(option, sorted, row) ==
    IF sorted = <<>> THEN <<row>>
    ELSE IF Before(option, row, Head(sorted)) THEN <<row>> \o sorted
    ELSE <<Head(sorted)>> \o InsertRow(option, Tail(sorted), row)

RECURSIVE SortRows(_, _)
SortRows(rows, option) ==
    IF rows = <<>> THEN <<>>
    ELSE InsertRow(option, SortRows(SubSeq(rows, 1, Len(rows) - 1), option),
                   rows[Len(rows)])

-----------------------------------------------------------------------------
(* The backend: what a query may answer *)


\* The pods the backend knows: all in cluster "c"
Pods ==
    <<[scope |-> "pod-1", namespace |-> <<"b">>, pod |-> <<"a", "p", "i", "-", "7">>],
      [scope |-> "pod-2", namespace |-> <<"a">>, pod |-> <<"d", "b">>],
      [scope |-> "pod-3", namespace |-> <<"b">>, pod |-> <<"w", "e", "b", "-", "1", "2">>]>>

\* The tag_set of a pod's series, in one of the two orders the backend may use
TagSet(pod, order) ==
    LET cluster == Tag(KubeClusterName, <<"c">>)
        namespace == Tag(KubeNamespace, pod.namespace)
        name == Tag(PodName, pod.pod)
    IN  IF order = "grouped" THEN <<cluster, namespace, name>>
        ELSE <<name, namespace, cluster>>
TagOrders == {"grouped", "reversed"}

Series(pod, order, pointlist) ==
    [scope |-> pod.scope, tag_set |-> TagSet(pod, order), pointlist |-> pointlist]

\* The answers that hold, for each of the pods, no series or one series with
\* tags in one of the orders and one of the pointlists; the series come in
\* the order of pods
Optional(S) == {<<>>} \cup {<<c>> : c \in S}
RECURSIVE PodAnswers(_, _, _)
PodAnswers(pods, orders, lists) ==
    IF pods = <<>> THEN {<<>>}
    ELSE {a \o b : a \in Optional({Series(Head(pods), o, l) : o \in orders, l \in lists}),
                   b \in PodAnswers(Tail(pods), orders, lists)}

\* The sample values of a metric: multiples of the divisor main applies
MB(n) == n * BytesPerMB
MetricValues(metric) ==
    CASE metric \in {"memory_max", "memory_avg", "memory_request"} ->
            {MB(30), MB(60), MB(100)}
      [] metric = "memory_limit" -> {0, MB(200)}
      [] metric \in {"cpu_max", "cpu_avg"} -> {NanosPerCore, 2 * NanosPerCore}
      [] OTHER -> {0, 2}

\* The clock values the runs start from: on a whole second and off it
StartClocks == {1000000000, 1000000250}

\* Planning runs: the lines typed at the time-range prompt, and a backend
\* that knows no pod.
PlanLines ==
    {<<>>, <<"n", "o", "w">>, <<"0", "m">>, <<"1", "m">>, <<"5", "9", "m">>,
     <<"1", "h">>, <<" ", "2", "H", " ">>, <<"2", "4", "h">>, <<"1", "d">>,
     <<"1", "4", "4", "1", "m">>, <<"2", "5", "h">>, <<"2", "d">>, <<"7", "d">>, <<"1", "6", "8", "h">>,
     <<"1", "0", "0", "8", "0", "m">>, <<"1", "0", "0", "8", "1", "m">>,
     <<"1", "6", "9", "h">>, <<"8", "d">>, <<"d">>, <<"5">>, <<"1", "-", "h">>}
PlanWaits == {0, 1, Seconds(20), Minutes(1)}
PlanThresholds == {0}

\* The arguments of a direct call of get_pod_metrics, relative to the clock
CallStarts == {0 - Hours(25), 0 - Hours(2), 0 - Hours(1), 0 - 1, 0, Hours(1)}
CallEnds == {0 - Hours(26), 0 - Hours(2), 0 - Hours(1), 0, Hours(1)}

\* Reducing runs: one chunk (the default range of one hour), two pods whose
\* series carry samples 90 s and 30 s before now, at most MaxSeries series in
\* all the answers of a run.
MaxSeries == 2
ReducePods == SubSeq(Pods, 1, 2)
MaxWarnings == 1
ReduceLines == {<<>>, <<"h">>}
ReduceWaits == {Seconds(1)}
ReduceThresholds == {0, 100}
ReduceOptions == {"Namespace"}
ReduceLists(metric, now) ==
    LET t1 == Seconds(Timestamp(now) - 90)
        t2 == Seconds(Timestamp(now) - 30)
        a == Some(SetMin(MetricValues(metric)))
        b == Some(SetMax(MetricValues(metric)))
    IN  {<<>>, <<<<t2, None>>>>, <<<<t2, a>>>>,
         <<<<t1, b>>, <<t2, None>>>>, <<<<t1, b>>, <<t2, a>>>>}

\* Sorting runs: one chunk, every pod with at most one memory_max and one
\* cpu_max sample 30 s before now, tags in one order, no other metric.
SortLines == {<<>>, <<"x">>}
SortWaits == {Seconds(2)}
SortThresholds == {0, 50, 100}
SortLists(metric, now) ==
    IF metric \in {"memory_max", "cpu_max"}
    THEN {<<<<Seconds(Timestamp(now) - 30), Some(v)>>>> : v \in MetricValues(metric)}
    ELSE {}

\* Merging runs: one, two or three chunks; two pods whose memory_max series,
\* in either tag order, carry samples at the ends of the queried window, so
\* that the windows of adjacent chunks share a timestamp; at most
\* MergeMaxSeries series in all the answers of a run; at most MaxWarnings
\* queries of a run fail.
MergeMaxSeries == 2
MergePods == SubSeq(Pods, 1, 2)
MergeLines == {<<>>, <<"2", "5", "h">>, <<"4", "9", "h">>, <<"9", "d">>}
MergeWaits == {Seconds(3)}
MergeThresholds == {0}
MergeOptions == {"Namespace"}
MergeLists(query) ==
    LET t1 == Seconds(query.from_ts)
        t2 == Seconds(query.to_ts)
        a == Some(SetMin(MetricValues(query.metric)))
        b == Some(SetMax(MetricValues(query.metric)))
    IN  IF query.metric = "memory_max"
        THEN {<<<<t2, b>>>>, <<<<t1, b>>, <<t2, a>>>>}
        ELSE {}

\* Overlapping runs: a range of 24 h and 1 min gives two chunks, the first
\* ending less than 300 s before now, so that both windows are extended and
\* share [end of chunk 1, end of chunk 1 + 300 s].  The memory_max answers hold,
\* for one pod, one or two samples taken 60 s and 30 s before now, which both
\* windows contain, each with a value or null; no other metric has series.
OverlapPods == SubSeq(Pods, 1, 1)
OverlapLines == {<<"1", "4", "4", "1", "m">>, <<"m">>}
OverlapWaits == {Seconds(3)}
OverlapThresholds == {0}
OverlapOptions == {"Namespace"}
OverlapLists(metric, now) ==
    LET t1 == Seconds(Timestamp(now) - 60)
        t2 == Seconds(Timestamp(now) - 30)
        values == {None, Some(SetMin(MetricValues(metric))),
                   Some(SetMax(MetricValues(metric)))}
    IN  IF metric = "memory_max"
        THEN {<<<<t, v>>>> : t \in {t1, t2}, v \in values}
                 \cup {<<<<t1, v>>, <<t2, w>>>> : v \in values, w \in values}
        ELSE {}

\* Naming runs: one chunk; the memory_max answer holds one series of one
\* sample, 30 s before now, for one pod of any of these names; no other
\* metric has series.
PodNames ==
    <<
      <<"w", "o", "r", "k", "e", "r", "-", "7", "d", "6", "c", "f",
        "8", "d", "5", "7", "9", "-", "x", "2", "n", "d", "s">>,
      <<"j", "o", "b", "-", "4", "2">>,
      <<"s", "e", "r", "v", "i", "c", "e">>,
      <<"w", "e", "b", "-", "7", "d", "6", "c", "f", "8", "d", "5",
        "7", "9">>,
      <<"a", "p", "i", "-", "a", "b", "c", "d", "e">>,
      <<"a", "-", "1", "-", "2">>,
      <<"d", "b", "-", "1", "2", "3", "4", "5", "6", "7", "8">>,
      <<"m", "y", "-", "s", "e", "r", "v", "i", "c", "e">>,
      <<"f", "r", "o", "n", "t", "-", "e", "n", "d">>,
      <<"a", "p", "p", "-", "A", "B", "C", "D", "E">>,
      <<"x", "-", "7", "d", "6", "c", "f", "8", "d", "5", "7", "9",
        "-", "x", "2", "n", "d", "s", "-", "1">>,
      <<"-", "5">>,
      <<"p", "o", "d", "-", "d", "e", "a", "d", "b", "e", "e", "f",
        "-", "a", "b", "c", "d">>,
      <<"p", "o", "d", "-", "d", "e", "a", "d", "b", "e", "e", "f",
        "-", "a", "b", "c", "d", "e", "f", "g", "h">>
    >>
NamedPod(i) == [scope |-> "pod", namespace |-> <<"a">>, pod |-> PodNames[i]]
NameLines == {<<>>, <<"x">>}
NameWaits == {Seconds(2)}
NameThresholds == {0}
NameOptions == {"Namespace"}
NameAnswers(metric, now) ==
    LET pointlist == <<<<Seconds(Timestamp(now) - 30), Some(MB(30))>>>>
    IN  IF metric = "memory_max"
        THEN {<<>>} \cup {<<Series(NamedPod(i), "grouped", pointlist)>> :
                              i \in 1..Len(PodNames)}
        ELSE {<<>>}

\* The answers a query may get in runs of each kind
Answers(kind, query, now) ==
    CASE kind = "plan" -> {<<>>}
      [] kind = "reduce" ->
            PodAnswers(ReducePods, TagOrders, ReduceLists(query.metric, now))
      [] kind = "sort" ->
            PodAnswers(Pods, {"grouped"}, SortLists(query.metric, now))
      [] kind = "merge" -> PodAnswers(MergePods, TagOrders, MergeLists(query))
      [] kind = "overlap" ->
            PodAnswers(OverlapPods, TagOrders, OverlapLists(query.metric, now))
      [] kind = "names" -> NameAnswers(query.metric, now)

\* The number of series the answers of a run may hold in all
SeriesBudget(kind) ==
    CASE kind = "plan" -> 0
      [] kind = "reduce" -> MaxSeries
      [] kind = "sort" -> Len(Pods) * Len(MetricNames)
      [] kind = "merge" -> MergeMaxSeries
      [] kind = "overlap" -> Len(OverlapPods) * Len(MetricNames)
      [] kind = "names" -> Len(MetricNames)

\* the number of series the answers of the run held so far
RECURSIVE SeriesIssued(_)
SeriesIssued(log) ==
    IF log = <<>> THEN 0 ELSE log[Len(log)].series + SeriesIssued(SubSeq(log, 1, Len(log) - 1))

-----------------------------------------------------------------------------
(* The program *)

Start(clocks) ==
    /\ pc = "range"
    /\ clock \in clocks
    /\ message = ""
    /\ start_time = 0
    /\ end_time = 0
    /\ threshold = 0
    /\ sort_option = ""
    /\ call = [now |-> 0, start_time |-> 0, end_time |-> 0]
    /\ time_chunks = <<>>
    /\ chunk_idx = 0
    /\ metric_idx = 0
    /\ issued = <<>>
    /\ warnings = 0
    /\ all_results = <<>>
    /\ ref_results = <<>>
    /\ pod_data = <<>>
    /\ range_line = <<>>
    /\ answers = <<>>

\* get_datetime_range: one line typed at the prompt.  A rejected line prints
\* its diagnostic and the loop asks again; an accepted one returns
\* (now - delta, now), now being the clock read when the function was entered.
GetDatetimeRange(lines) ==
    /\ pc = "range"
    /\ \E line \in lines :
          /\ range_line' = TimeRangeOf(line)
          /\ IF RangeVerdict(line) # ""
             THEN /\ message' = RangeVerdict(line)
                  /\ UNCHANGED <<pc, start_time, end_time>>
             ELSE /\ end_time' = clock
                  /\ start_time' = clock - Val(RangeDelta(line))
                  /\ pc' = "prompts"
                  /\ UNCHANGED message
    /\ UNCHANGED <<clock, threshold, sort_option, call, time_chunks, chunk_idx,
                   metric_idx, issued, warnings, all_results, ref_results,
                   pod_data, answers>>

\* get_pod_metrics called by another caller than main, which passes the
\* start_time and end_time it likes: each is the clock plus an offset
GetPodMetricsCalled(starts, ends) ==
    /\ pc = "range"
    /\ \E s \in starts, e \in ends :
          /\ start_time' = clock + s
          /\ end_time' = clock + e
    /\ pc' = "call"
    /\ UNCHANGED <<clock, message, threshold, sort_option, call, time_chunks,
                   chunk_idx, metric_idx, issued, warnings, all_results,
                   ref_results, pod_data, range_line, answers>>

\* main, between get_datetime_range and get_pod_metrics: the remaining prompts
\* are answered, which takes time.  (The answers, threshold and sort_option,
\* are not read before the rows are built; the model draws them there.)
Prompts(waits) ==
    /\ pc = "prompts"
    /\ \E wait \in waits : clock' = clock + wait
    /\ pc' = "call"
    /\ UNCHANGED <<message, start_time, end_time, threshold, sort_option, call,
                   time_chunks, chunk_idx, metric_idx, issued, warnings,
                   all_results, ref_results, pod_data, range_line, answers>>

\* get_pod_metrics up to the query loop: now is read again and replaces the
\* end_time argument; a range of 7 days and 1 minute or more raises, which
\* main catches and prints; otherwise the chunks are planned.
EnterGetPodMetrics ==
    /\ pc = "call"
    /\ LET now == clock
           time_range == now - start_time
       IN  IF time_range >= max_history + Minutes(1)
           THEN /\ message' = "Error: Time range too large"
                /\ pc' = "done"
                /\ UNCHANGED <<call, time_chunks, chunk_idx, metric_idx>>
           ELSE /\ call' = [now |-> now, start_time |-> start_time, end_time |-> now]
                /\ time_chunks' = PlanChunks(start_time, now)
                /\ chunk_idx' = 1
                /\ metric_idx' = 1
                /\ pc' = IF PlanChunks(start_time, now) = <<>> THEN "report" ELSE "query"
                /\ UNCHANGED message
    /\ UNCHANGED <<clock, start_time, end_time, threshold, sort_option, issued,
                   warnings, all_results, ref_results, pod_data, range_line,
                   answers>>

\* The end of one iteration of "for metric_name ...": the next metric, the
\* next chunk, or the return of all_results
Advance ==
    IF metric_idx < Len(MetricNames)
    THEN /\ metric_idx' = metric_idx + 1
         /\ UNCHANGED <<chunk_idx, pc>>
    ELSE IF chunk_idx < Len(time_chunks)
    THEN /\ metric_idx' = 1
         /\ chunk_idx' = chunk_idx + 1
         /\ UNCHANGED pc
    ELSE /\ pc' = "report"
         /\ UNCHANGED <<chunk_idx, metric_idx>>

\* the query of the current iteration
CurrentQuery ==
    [from_ts |-> FromTs(time_chunks[chunk_idx]),
     to_ts |-> ToTs(time_chunks[chunk_idx], call.now),
     metric |-> MetricNames[metric_idx]]

\* an entry of the log of queries: the query, and the number of series it
\* returned (0 for a query that raised)
Logged(query, series) ==
    [from_ts |-> query.from_ts, to_ts |-> query.to_ts, metric |-> query.metric,
     series |-> series]

\* One iteration whose query returns: the answer is merged.  (The answers of
\* a run hold at most SeriesBudget(kind) series in all.)
QueryReturns(kind) ==
    /\ pc = "query"
    /\ \E series \in Answers(kind, CurrentQuery, call.now) :
          /\ Len(series) <= SeriesBudget(kind) - SeriesIssued(issued)
          /\ all_results' = MergeResult(all_results, CurrentQuery.metric, series)
          /\ ref_results' = MergeResult(ref_results, CurrentQuery.metric, series)
          /\ issued' = Append(issued, Logged(CurrentQuery, Len(series)))
          /\ answers' = Append(answers, series)
    /\ Advance
    /\ UNCHANGED <<clock, message, start_time, end_time, threshold, sort_option,
                   call, time_chunks, warnings, pod_data, range_line>>

\* A failure that ends the loops instead of going on
QueryAborts ==
    /\ pc = "query"
    /\ ref_results' = MergeResult(ref_results, CurrentQuery.metric, <<>>)
    /\ issued' = Append(issued, Logged(CurrentQuery, 0))
    /\ warnings' = warnings + 1
    /\ warnings < MaxWarnings
    /\ answers' = Append(answers, <<>>)
    /\ pc' = "report"
    /\ UNCHANGED <<clock, message, start_time, end_time, threshold, sort_option,
                   call, time_chunks, chunk_idx, metric_idx, all_results, pod_data,
                   range_line>>

\* One iteration whose query raises: the except clause prints a warning and
\* the loop goes on.  ref_results merges an answer of no series instead.
QueryFails ==
    /\ pc = "query"
    /\ ref_results' = MergeResult(ref_results, CurrentQuery.metric, <<>>)
    /\ issued' = Append(issued, Logged(CurrentQuery, 0))
    /\ warnings' = warnings + 1
    /\ warnings < MaxWarnings
    /\ answers' = Append(answers, <<>>)
    /\ Advance
    /\ UNCHANGED <<clock, message, start_time, end_time, threshold, sort_option,
                   call, time_chunks, all_results, pod_data, range_line>>

\* main after get_pod_metrics: with no memory_max series it prints that no
\* metrics were found and returns; otherwise it builds the rows, filters them
\* by the threshold and sorts them by the chosen mode.
Report(thresholds, options) ==
    /\ pc = "report"
    /\ IF SeriesOf(all_results, "memory_max") = <<>>
       THEN /\ message' = "No metrics found"
            /\ UNCHANGED <<threshold, sort_option, pod_data>>
       ELSE /\ \E t \in thresholds, o \in options :
                  /\ threshold' = t
                  /\ sort_option' = o
                  /\ pod_data' = SortRows(BuildRows(all_results, t), o)
            /\ UNCHANGED message
    /\ pc' = "done"
    /\ UNCHANGED <<clock, start_time, end_time, call, time_chunks, chunk_idx,
                   metric_idx, issued, warnings, all_results, ref_results,
                   range_line, answers>>

\* Planning runs: any line at the prompt, a backend without pods
InitPlan == Start(StartClocks)
NextPlan ==
    \/ GetDatetimeRange(PlanLines)
    \/ Prompts(PlanWaits)
    \/ EnterGetPodMetrics
    \/ QueryReturns("plan")
    \/ Report(PlanThresholds, SortOptions)
SpecPlan == InitPlan /\ [][NextPlan]_vars

\* Direct calls of get_pod_metrics with any start_time and end_time, the
\* inverted and the empty ranges included, on a backend without pods
InitCall == Start(StartClocks)
NextCall ==
    \/ GetPodMetricsCalled(CallStarts, CallEnds)
    \/ EnterGetPodMetrics
    \/ QueryReturns("plan")
    \/ Report(PlanThresholds, SortOptions)
SpecCall == InitCall /\ [][NextCall]_vars

\* Reducing runs: one chunk, answers with samples for two pods
InitReduce == Start({SetMax(StartClocks)})
NextReduce ==
    \/ GetDatetimeRange(ReduceLines)
    \/ Prompts(ReduceWaits)
    \/ EnterGetPodMetrics
    \/ QueryReturns("reduce")
    \/ Report(ReduceThresholds, ReduceOptions)
SpecReduce == InitReduce /\ [][NextReduce]_vars

InitMerge == Start({SetMin(StartClocks)})
NextMerge ==
    \/ GetDatetimeRange(MergeLines)
    \/ Prompts(MergeWaits)
    \/ EnterGetPodMetrics
    \/ QueryReturns("merge")
    \/ QueryFails
    \/ Report(MergeThresholds, MergeOptions)
SpecMerge == InitMerge /\ [][NextMerge]_vars

InitOverlap == Start({SetMax(StartClocks)})
NextOverlap ==
    \/ GetDatetimeRange(OverlapLines)
    \/ Prompts(OverlapWaits)
    \/ EnterGetPodMetrics
    \/ QueryReturns("overlap")
    \/ Report(OverlapThresholds, OverlapOptions)
SpecOverlap == InitOverlap /\ [][NextOverlap]_vars

InitNames == Start(StartClocks)
NextNames ==
    \/ GetDatetimeRange(NameLines)
    \/ Prompts(NameWaits)
    \/ EnterGetPodMetrics
    \/ QueryReturns("names")
    \/ Report(NameThresholds, NameOptions)
SpecNames == InitNames /\ [][NextNames]_vars

InitSort == Start({SetMin(StartClocks)})
NextSort ==
    \/ GetDatetimeRange(SortLines)
    \/ Prompts(SortWaits)
    \/ EnterGetPodMetrics
    \/ QueryReturns("sort")
    \/ Report(SortThresholds, SortOptions)
SpecSort == InitSort /\ [][NextSort]_vars

-----------------------------------------------------------------------------
(* What the claims speak of *)

Range(seq) == {seq[i] : i \in 1..Len(seq)}

\* The entity of a series: its scope and its tags as a set
SameEntity(a, b) == a.scope = b.scope /\ Range(a.tag_set) = Range(b.tag_set)

\* The points the merged series of a metric hold for the entity of series s
EntityPoints(results, metric, s) ==
    UNION {Range(e.pointlist) :
               e \in {x \in Range(SeriesOf(results, metric)) : SameEntity(x, s)}}

\* Of a set of points, the non-null one with the greatest timestamp, or None
LatestOf(points) ==
    LET valued == {p \in points : PointValue(p) # None}
    IN  IF valued = {} THEN None
        ELSE Some(CHOOSE p \in valued : \A q \in valued : PointTime(q) <= PointTime(p))

\* The divisor main applies to the samples of a metric
Divisor(metric) ==
    CASE metric \in {"memory_max", "memory_avg", "memory_request", "memory_limit"} ->
            BytesPerMB
      [] metric \in {"cpu_max", "cpu_avg"} -> NanosPerCore
      [] OTHER -> 1

\* main has built its rows
Reported == pc = "done" /\ SeriesOf(all_results, "memory_max") # <<>>

\* The memory_max series for which main appends a row
RowedSeries ==
    {s \in Range(SeriesOf(all_results, "memory_max")) :
         Kept(all_results, RowKey(s), threshold)}

\* a taken value (None or Some) is the sample of the point (None or Some), scaled
IsSampleOf(taken, point, metric) ==
    /\ (taken = None) <=> (point = None)
    /\ taken # None =>
           Val(taken) * Divisor(metric) = Val(PointValue(Val(point)))

-----------------------------------------------------------------------------
(* C2, C5, C6, C7 *)

\* C2: for every entity that gets a row and each of the 8 metrics, the value
\* the reducer takes is the value of the non-null point with the greatest
\* timestamp in that metric's merged series of the entity (None when the
\* entity has no non-null point there).
C2_LatestNonNullTaken ==
    Reported =>
        \A s \in RowedSeries, m \in MetricSet :
            IsSampleOf(Reduced(all_results, RowKey(s))[m],
                       LatestOf(EntityPoints(all_results, m, s)), m)

\* C5: series of equal scope and equal tags as a set are one entity: no
\* metric keeps two merged series of one entity, and every metric's samples
\* of the entity of a row reach that row, in whatever order the tags come.
C5_TagOrderIrrelevant ==
    /\ \A m \in DOMAIN all_results :
           \A i, j \in 1..Len(all_results[m]) :
               SameEntity(all_results[m][i], all_results[m][j]) => i = j
    /\ Reported =>
           \A s \in RowedSeries, m \in MetricSet :
               LatestOf(EntityPoints(all_results, m, s)) # None =>
                   LET r == Row(all_results, RowKey(s))
                   IN  /\ r \in Range(pod_data)
                       /\ IsSampleOf(r[m], LatestOf(EntityPoints(all_results, m, s)), m)

\* the entity of s has no non-null sample of the limit metric, or one <= 0
NoLimit(results, metric, s) ==
    LET limit == LatestOf(EntityPoints(results, metric, s))
    IN  limit = None \/ Val(PointValue(Val(limit))) <= 0

\* C6: in a row, a metric without a non-null sample stays undefined, and a
\* percentage is undefined when its limit is absent or <= 0.
C6_UndefinedStaysUndefined ==
    Reported =>
        \A s \in RowedSeries :
            LET r == Row(all_results, RowKey(s))
            IN  /\ r \in Range(pod_data)
                /\ \A m \in MetricSet :
                       LatestOf(EntityPoints(all_results, m, s)) = None => r[m] = None
                /\ NoLimit(all_results, "memory_limit", s) => r.memory_percent = None
                /\ NoLimit(all_results, "cpu_limit", s) => r.cpu_percent = None

\* C7: every row carries a status: Active exactly when the entity's latest
\* non-null cpu_max sample is less than 60 seconds older than now, else
\* Completed (also without any such sample).
C7_RowsCarryStatus ==
    Reported =>
        \A s \in RowedSeries :
            LET r == Row(all_results, RowKey(s))
                latest == LatestOf(EntityPoints(all_results, "cpu_max", s))
                recent == latest # None /\ clock - PointTime(Val(latest)) < Seconds(60)
            IN  /\ r \in Range(pod_data)
                /\ "status" \in DOMAIN r
                /\ r.status \in {"Active", "Completed"}
                /\ r.status = "Active" <=> recent

-----------------------------------------------------------------------------
(* C8, C9, C10 *)

\* The latest non-null memory_max point the merged results hold for a pod
LatestMemoryMax(pod) ==
    LatestOf(EntityPoints(all_results, "memory_max", Series(pod, "grouped", <<>>)))

\* The positions of the rows of a pod in pod_data
RowsOf(pod) ==
    {k \in 1..Len(pod_data) :
         pod_data[k].pod = pod.pod /\ pod_data[k].namespace = pod.namespace}

\* The latest memory_max values of the pods that have one, in bytes
MemoryMaxValues ==
    {PointValue(Val(LatestMemoryMax(Pods[i]))) [1] :
         i \in {j \in 1..Len(Pods) : LatestMemoryMax(Pods[j]) # None}}

\* C8: when main is done, a pod has a row if and only if it has a non-null
\* memory_max sample and the latest one is >= the threshold (in MB); with
\* threshold 50 and values {30, 60, 100} the rows are those of 60 and 100; a
\* pod without memory_max series has no row whatever cpu_max reports.
C8_RowIffAtLeastThreshold ==
    pc = "done" =>
        /\ \A i \in 1..Len(Pods) :
               RowsOf(Pods[i]) # {} <=>
                   /\ LatestMemoryMax(Pods[i]) # None
                   /\ Val(PointValue(Val(LatestMemoryMax(Pods[i])))) >= MB(threshold)
        /\ (threshold = 50 /\ MemoryMaxValues = {MB(30), MB(60), MB(100)}) =>
               /\ Len(pod_data) = 2
               /\ {Val(pod_data[k].memory_max) : k \in 1..Len(pod_data)} = {60, 100}

\* The example of C8 has happened, next to a pod that cpu_max reports and
\* memory_max does not
C8_Witness ==
    /\ pc = "done"
    /\ threshold = 50
    /\ {Val(pod_data[k].memory_max) : k \in 1..Len(pod_data)} = {60, 100}
    /\ \E i \in 1..Len(Pods) :
           /\ LatestMemoryMax(Pods[i]) # None
           /\ Val(PointValue(Val(LatestMemoryMax(Pods[i])))) = MB(30)
           /\ RowsOf(Pods[i]) = {}

\* C9: in mode "Memory (high to low)" every two adjacent rows have
\* memory_max of the first >= memory_max of the second.
C9_MemoryHighToLow ==
    (Reported /\ sort_option = "Memory (high to low)") =>
        \A k \in 1..(Len(pod_data) - 1) :
            Val(pod_data[k].memory_max) >= Val(pod_data[k + 1].memory_max)

\* C10: in mode "Name" every two adjacent rows have base_name of the first
\* <= base_name of the second.
C10_NameAscending ==
    (Reported /\ sort_option = "Name") =>
        \A k \in 1..(Len(pod_data) - 1) :
            ~StrLess(pod_data[k + 1].base_name, pod_data[k].base_name)

-----------------------------------------------------------------------------
(* C1, C3 *)

\* the points of a list are in ascending order of distinct timestamps
StrictlyAscending(pointlist) ==
    \A k \in 1..(Len(pointlist) - 1) :
        PointTime(pointlist[k]) < PointTime(pointlist[k + 1])

\* get_pod_metrics has returned all_results
Returned == pc \in {"report", "done"}

\* C1: once get_pod_metrics has processed all chunks, for every metric each
\* entity has at most one merged series, and the points of every merged
\* series are in ascending order of distinct timestamps (for a backend whose
\* answers hold one series per entity, with points in ascending order of
\* distinct timestamps).
C1_MergedSortedUnique ==
    Returned =>
        \A m \in DOMAIN all_results :
            \A i, j \in 1..Len(all_results[m]) :
                /\ StrictlyAscending(all_results[m][i].pointlist)
                /\ SameEntity(all_results[m][i], all_results[m][j]) => i = j

\* Three chunks were processed, and a pod's memory_max series was merged
\* from the answers of the first two, that both hold a point at the
\* boundary of the two chunks: the merged series holds it once.
C1_Witness ==
    /\ pc = "report"
    /\ Len(time_chunks) = 3
    /\ issued[1].series = 1 /\ issued[9].series = 1
    /\ \E s \in Range(SeriesOf(all_results, "memory_max")) :
           /\ Len(s.pointlist) = 3
           /\ PointTime(s.pointlist[2]) = Seconds(FromTs(time_chunks[2]))
           /\ PointValue(s.pointlist[2]) = Some(MB(100))

\* the query of chunk c and metric number j
QueryAt(c, j) ==
    [from_ts |-> FromTs(time_chunks[c]), to_ts |-> ToTs(time_chunks[c], call.now),
     metric |-> MetricNames[j]]

\* C3: whatever queries fail, the queries issued are those of the chunks in
\* order, each with the 8 metrics in order, all of them once get_pod_metrics
\* has returned; and the series merged for every metric are those merged
\* when each failed query returns no series instead (ref_results).
C3_FailuresAbsorbed ==
    /\ \A k \in 1..Len(issued) :
           LET q == QueryAt(((k - 1) \div Len(MetricNames)) + 1,
                            ((k - 1) % Len(MetricNames)) + 1)
           IN  /\ issued[k].from_ts = q.from_ts
               /\ issued[k].to_ts = q.to_ts
               /\ issued[k].metric = q.metric
    /\ Returned => Len(issued) = Len(MetricNames) * Len(time_chunks)
    /\ \A m \in MetricSet : SeriesOf(all_results, m) = SeriesOf(ref_results, m)

\* In a run of two or more chunks a query failed, all the queries were
\* issued all the same, and get_pod_metrics returned the series of those
\* that did not fail
C3_Witness ==
    /\ pc = "report"
    /\ Len(time_chunks) >= 2
    /\ warnings > 0
    /\ Len(issued) = Len(MetricNames) * Len(time_chunks)
    /\ SeriesOf(all_results, "memory_max") # <<>>

-----------------------------------------------------------------------------
(* C4 *)

\* ceil(a / b) for a >= 0, b > 0
CeilDiv(a, b) == (a + b - 1) \div b

\* the chunks are an ordered, contiguous, non-overlapping cover of [from, to)
\* by n non-empty chunks of at most 24 hours
Covers(chunks, from, to, n) ==
    /\ Len(chunks) = n
    /\ n > 0 => chunks[1][1] = from /\ chunks[n][2] = to
    /\ \A k \in 1..Len(chunks) :
           /\ chunks[k][1] < chunks[k][2]
           /\ chunks[k][2] - chunks[k][1] <= Hours(ChunkHours)
    /\ \A k \in 1..(Len(chunks) - 1) : chunks[k][2] = chunks[k + 1][1]

\* get_pod_metrics has been called with the range [start_time, end_time)
Planned == pc \in {"query", "report", "done"}

\* C4: for the range [start_time, end_time) passed to get_pod_metrics, of
\* duration D with 1 minute <= D <= 7 days, the chunks planned are an ordered
\* contiguous cover of exactly [start_time, end_time) by ceil(D / 24h) chunks
\* of at most 24 hours.
C4_ChunksCoverRequest ==
    LET D == end_time - start_time
    IN  (Planned /\ Minutes(1) <= D /\ D <= Days(MaxHistoryDays)) =>
            Covers(time_chunks, start_time, end_time, CeilDiv(D, Hours(ChunkHours)))

-----------------------------------------------------------------------------
(* C11 *)

\* the pod of a row has a non-null cpu_max sample in the merged results
HasCpuMax(row) ==
    \E i \in 1..Len(Pods) :
        /\ Pods[i].pod = row.pod
        /\ Pods[i].namespace = row.namespace
        /\ LatestOf(EntityPoints(all_results, "cpu_max",
                                 Series(Pods[i], "grouped", <<>>))) # None

\* C11: in mode "CPU (low to high)" the rows that have a cpu_max sample are
\* in ascending order of cpu_max, and every row whose pod has no cpu_max
\* sample comes after every row whose pod has one.
C11_CpuLowToHigh ==
    (Reported /\ sort_option = "CPU (low to high)") =>
        \A j, k \in 1..Len(pod_data) :
            j < k =>
                /\ (HasCpuMax(pod_data[j]) /\ HasCpuMax(pod_data[k])) =>
                       Val(pod_data[j].cpu_max) <= Val(pod_data[k].cpu_max)
                /\ ~(~HasCpuMax(pod_data[j]) /\ HasCpuMax(pod_data[k]))

-----------------------------------------------------------------------------
(* C12 *)

\* The duration a line at the range prompt asks for (None when malformed)
Requested == parse_relative_time(range_line)

\* C12: a request of 7 days and 1 minute or more is refused as too large
\* before any query is sent, and a request of exactly 7 days is accepted and
\* its chunks are planned.
C12_SevenDaysAllowed ==
    Requested # None =>
        /\ Val(Requested) >= Days(MaxHistoryDays) + Minutes(1) =>
               /\ pc = "range"
               /\ message = "Time range too large"
               /\ issued = <<>>
        /\ Val(Requested) = Days(MaxHistoryDays) =>
               /\ pc # "range"
               /\ pc \in {"query", "report", "done"} =>
                      /\ time_chunks # <<>>
                      /\ message # "Error: Time range too large"

-----------------------------------------------------------------------------
(* C13 *)

\* C13: a request of less than 1 minute, a zero one such as "0m" or "now"
\* included, is refused with the diagnostic "Time range too small" and no
\* query is sent.
C13_TooSmallRejected ==
    (Requested # None /\ Val(Requested) < Seconds(MinRangeSeconds)) =>
        /\ pc = "range"
        /\ message = "Time range too small"
        /\ issued = <<>>

-----------------------------------------------------------------------------
(* C14 *)

\* get_pod_metrics has raised: main printed the error and stopped, with no
\* chunk planned and no query sent
Raised ==
    /\ pc = "done"
    /\ message \notin {"", "No metrics found"}
    /\ time_chunks = <<>>
    /\ issued = <<>>

\* C14: get_pod_metrics called with start >= end fails with an error: it
\* neither sends a query nor returns a result, an empty one included.
C14_InvertedRangeRaises ==
    (start_time >= end_time /\ pc \in {"query", "report", "done"}) => Raised

-----------------------------------------------------------------------------
(* C15 *)

\* get_pod_metrics has planned its chunks (it did not raise)
ChunksPlanned == Planned /\ call.now # 0

\* the chunk the k-th query of a run belongs to
ChunkOfQuery(k) == time_chunks[((k - 1) \div Len(MetricNames)) + 1]

\* C15: the upper bound sent for a chunk is the chunk end, in whole epoch
\* seconds, plus 300 s when the chunk ends less than 300 s before now, and the
\* chunk end itself otherwise.  Only that bound is extended: the lower bound
\* sent is the chunk start, the chunks are those planned over [start, now]
\* without any buffer, each chunk starts where the one before ends, and the
\* start and end times that are reported are not moved.
C15_BufferOnlyOnQueryBound ==
    ChunksPlanned =>
        /\ \A k \in 1..Len(issued) :
               LET chunk_end == ChunkOfQuery(k)[2]
               IN  /\ issued[k].from_ts = ChunkOfQuery(k)[1] \div MsPerSecond
                   /\ issued[k].to_ts =
                          IF call.now - chunk_end < BufferSeconds * MsPerSecond
                          THEN (chunk_end \div MsPerSecond) + BufferSeconds
                          ELSE chunk_end \div MsPerSecond
        /\ time_chunks = PlanChunks(start_time, call.now)
        /\ \A c \in 1..(Len(time_chunks) - 1) :
               time_chunks[c + 1][1] = time_chunks[c][2]
        /\ time_chunks # <<>> => time_chunks[Len(time_chunks)][2] = call.now
        /\ call.start_time = start_time
        /\ call.end_time = call.now
        /\ end_time <= call.now

\* a run of two chunks has ended: the first chunk was queried up to its end,
\* the second, which ends now, up to 300 s later
C15_Witness ==
    /\ pc = "done"
    /\ Len(time_chunks) = 2
    /\ Len(issued) = 2 * Len(MetricNames)
    /\ issued[1].to_ts = Timestamp(time_chunks[1][2])
    /\ issued[Len(issued)].to_ts = Timestamp(call.now) + BufferSeconds
    /\ issued[Len(issued)].from_ts = issued[1].to_ts

-----------------------------------------------------------------------------
(* C16, C18 *)

\* The memory_max answers of the first and of the second window of a run of
\* two chunks, and the series merged from them
FirstWindow == answers[1]
SecondWindow == answers[Len(MetricNames) + 1]
BothWindows == Len(time_chunks) = 2 /\ Len(answers) > Len(MetricNames)
Merged == SeriesOf(all_results, "memory_max")

Stamps(pointlist) == {PointTime(pointlist[i]) : i \in 1..Len(pointlist)}

\* the point of a list at timestamp t
PointAt(pointlist, t) ==
    pointlist[CHOOSE i \in 1..Len(pointlist) : PointTime(pointlist[i]) = t]

\* C16: merging a window's result with an identical copy of it gives the
\* same series, and merging the results of two overlapping windows gives, for
\* an entity both hold, one series with exactly one point per distinct
\* timestamp of the two.
C16_MergeIdempotent ==
    BothWindows =>
        /\ (FirstWindow = SecondWindow /\ FirstWindow # <<>>) =>
               Merged = FirstWindow
        /\ \A s1 \in Range(FirstWindow), s2 \in Range(SecondWindow) :
               SameEntity(s1, s2) =>
                   /\ Len(Merged) = 1
                   /\ Stamps(Merged[1].pointlist) =
                          Stamps(s1.pointlist) \cup Stamps(s2.pointlist)
                   /\ Len(Merged[1].pointlist) =
                          Cardinality(Stamps(Merged[1].pointlist))
                   /\ s1.pointlist = s2.pointlist =>
                          Merged[1].pointlist = s1.pointlist

\* both windows returned the same series of two points, and it is the result
C16_Witness ==
    /\ BothWindows
    /\ FirstWindow = SecondWindow
    /\ Len(FirstWindow) = 1
    /\ Len(FirstWindow[1].pointlist) = 2
    /\ Merged = FirstWindow

\* C18: when the two windows return a point of the same entity at the same
\* timestamp, the merged series keeps the point of the window queried later,
\* a null one included: a later null replaces an earlier value.
C18_LaterWindowWins ==
    BothWindows =>
        \A s1 \in Range(FirstWindow), s2 \in Range(SecondWindow) :
            SameEntity(s1, s2) =>
                \A t \in Stamps(s1.pointlist) \cap Stamps(s2.pointlist) :
                    /\ Len(Merged) = 1
                    /\ PointAt(Merged[1].pointlist, t) = PointAt(s2.pointlist, t)

\* the first window held a value at a timestamp where the second held null,
\* and the merged series holds null there
C18_Witness ==
    /\ BothWindows
    /\ \E s1 \in Range(FirstWindow), s2 \in Range(SecondWindow) :
           /\ SameEntity(s1, s2)
           /\ \E t \in Stamps(s1.pointlist) \cap Stamps(s2.pointlist) :
                  /\ PointValue(PointAt(s1.pointlist, t)) # None
                  /\ PointValue(PointAt(s2.pointlist, t)) = None
                  /\ PointValue(PointAt(Merged[1].pointlist, t)) = None

-----------------------------------------------------------------------------
(* C17 *)

\* the patterns that match at the end of a name
MatchingPatterns(name) ==
    {k \in 1..PatternCount : \E i \in 1..Len(name) : SuffixMatches(k, name, i)}

\* base is name without the match of pattern k, and only that
CutBy(k, name, base) ==
    \E i \in 1..Len(name) :
        /\ SuffixMatches(k, name, i)
        /\ \A h \in 1..(i - 1) : ~SuffixMatches(k, name, h)
        /\ base = SubSeq(name, 1, i - 1)

\* C17: the base name of a row's pod is its name without at most one trailing
\* suffix, the match of the first pattern, in priority order, that matches at
\* the end of the name; a name no pattern matches is kept unchanged:
\* "worker-7d6cf8d579-x2nds" gives "worker", "job-42" gives "job", "service"
\* gives "service".
C17_OneSuffixRemoved ==
    \A r \in 1..Len(pod_data) :
        LET name == pod_data[r].pod
            base == pod_data[r].base_name
        IN  /\ MatchingPatterns(name) = {} => base = name
            /\ MatchingPatterns(name) # {} =>
                   CutBy(SetMin(MatchingPatterns(name)), name, base)
            /\ name = PodNames[1] => base = <<"w", "o", "r", "k", "e", "r">>
            /\ name = PodNames[2] => base = <<"j", "o", "b">>
            /\ name = PodNames[3] => base = PodNames[3]

\* a row whose pod name ends with two suffixes the patterns match has lost
\* the last one only
C17_Witness ==
    /\ pc = "done"
    /\ Len(pod_data) = 1
    /\ pod_data[1].pod = <<"a", "-", "1", "-", "2">>
    /\ pod_data[1].base_name = <<"a", "-", "1">>

====
